---- MODULE Spec2Model ----
(***************************************************************************)
(* gallerica: the daemon's scheduling and coordination engine.             *)
(*                                                                         *)
(*   src/src/timer.rs  PausableInterval (new, tick, pause, reset)          *)
(*   src/src/main.rs   ApplicationState (update_configuration, update,     *)
(*                     select_random_image, handle_message, run, persist)  *)
(*                                                                         *)
(* Time is a discrete clock `now`.  One unit of the clock is longer than   *)
(* the 5 ms tolerance tokio's Interval grants a late tick, so a tick that  *)
(* is late by at least one unit is a missed tick (MissedTickBehavior::     *)
(* Delay applies) and a tick late by zero units is on time.                *)
(*                                                                         *)
(* An Option<T> is a sequence of length 0 (None) or 1 (Some(v)).           *)
(***************************************************************************)
EXTENDS Integers, Sequences, FiniteSets, TLC

VARIABLES
    pc,               \* where the program is: "new", "run", or an end state
    files,            \* the file system: the regular files in each gallery's folders
    galleries,        \* keys of ApplicationState::galleries
    persistent,       \* PersistentState: current_gallery, recenty_selected, capacity, is_paused
    number_retries,   \* ApplicationState::number_retries
    storage_file,     \* ApplicationState::storage_file is Some (TRUE) or None (FALSE)
    stored,           \* the state file on disk: None (absent) or Some(file contents)
    update_interval,  \* the PausableInterval
    tickFut,          \* the tick() future of the current select! iteration
    update_task,      \* Option<JoinHandle>: the command the task runs
    pending_update,   \* Option<Command>
    procs,            \* ids of the display processes that are alive
    now,              \* the clock (Instant::now())
    latest,           \* id of the command built last (0: none yet)
    reply,            \* the last handled request and the Response it was answered with
    since,            \* what started the current timer period: "startup", "immediate"
                      \* (update_immediately), "completed", "reset", "new" (a new
                      \* timer), "new_paused" (a new timer, paused at once)
    unpaused,         \* unpaused time elapsed since that start
    tk,               \* timer alone: outcome of the last tick().await
    pick,             \* functions alone: outcome of the last select_random_image()
    signal            \* the shutdown signal has arrived (shutdown_task is complete)

vars == <<pc, files, galleries, persistent, number_retries, storage_file, stored,
          update_interval, tickFut, update_task, pending_update, procs, now,
          latest, reply, since, unpaused, tk, pick, signal>>

(***************************************************************************)
(* Bounds of the model and constants of the program.                       *)
(***************************************************************************)
MaxTime == 4          \* TimedSpec and TimerSpec: the clock stops advancing here
Interval == 2         \* TimedSpec and TimerSpec: the configured update interval
LoopMaxTime == 1      \* Spec: the clock stops advancing here
LoopInterval == 1     \* Spec: the configured update interval
BufCap == 1           \* recent_image_buffer_size of the modelled configurations
MaxCap == 2           \* FunSpec: the largest capacity of a recency buffer
MaxRetries == 2       \* FunSpec: the largest number_retries
DefaultBufferSize == 3
DefaultRetries == 3
DefaultInterval == 10000

None == <<>>
Some(v) == <<v>>
IsSome(o) == Len(o) = 1
Unwrap(o) == o[1]

Monus(a, b) == IF a > b THEN a - b ELSE 0
Max(a, b) == IF a > b THEN a ELSE b

(***************************************************************************)
(* timer.rs: PausableInterval.  delay (tokio Interval, MissedTickBehavior  *)
(* Delay) is its period and the deadline of its next tick.                 *)
(***************************************************************************)

\* PausableInterval::new, for a period > 0 (time::interval panics on a zero
\* period, see PeriodPanics).  The first tick of a tokio interval completes
\* immediately: its deadline is the instant of creation.
TimerNew(period, t) ==
    [ period |-> period, deadline |-> t, is_paused |-> FALSE,
      already_expired |-> None, last_interaction |-> t ]

\* time::interval asserts period > 0.
PeriodPanics(period) == period = 0

\* PausableInterval::pause
TimerPause_Mutant(tm, paused, t) ==
    IF tm.is_paused = paused THEN tm
    ELSE [ tm EXCEPT
             !.is_paused = paused,
             !.already_expired = IF paused THEN Some(t - tm.last_interaction)
                                 ELSE tm.already_expired,
             !.last_interaction = t ]
TimerPause_MutantNoop(tm, paused, t) == tm
TimerPause(tm, paused, t) ==
    IF tm.is_paused = paused THEN tm
    ELSE [ tm EXCEPT
             !.is_paused = paused,
             !.already_expired =
                 IF paused
                 THEN Some((IF IsSome(tm.already_expired) THEN Unwrap(tm.already_expired) ELSE 0)
                           + (t - tm.last_interaction))
                 ELSE tm.already_expired,
             !.last_interaction = t ]

\* PausableInterval::reset (Interval::reset: the next tick is one period from now)
TimerReset(tm, t) ==
    [ tm EXCEPT !.already_expired = None, !.last_interaction = t,
                !.deadline = t + tm.period ]

\* The states of a tick() future.
FutUnpolled == [ kind |-> "unpolled", until |-> 0 ]
FutPaused == [ kind |-> "paused", until |-> 0 ]
FutSleep(until) == [ kind |-> "sleep", until |-> until ]
FutDelay == [ kind |-> "delay", until |-> 0 ]

\* tick(), first poll: the future it becomes.
TickPollFut_Mutant(tm, t) ==
    IF IsSome(tm.already_expired)
    THEN FutSleep(t + Monus(tm.period,
                            Unwrap(tm.already_expired) + (t - tm.last_interaction)))
    ELSE FutDelay
TickPollFut_MutantRestart(tm, t) ==
    IF tm.is_paused THEN FutPaused ELSE FutSleep(t + tm.period)
TickPollFut(tm, t) ==
    IF tm.is_paused THEN FutPaused
    ELSE IF IsSome(tm.already_expired)
         THEN FutSleep(t + Monus(tm.period,
                                 Unwrap(tm.already_expired) + (t - tm.last_interaction)))
         ELSE FutDelay

\* tick(), first poll: the timer it leaves (already_expired.take()).
TickPollTimer(tm) ==
    IF tm.is_paused THEN tm ELSE [ tm EXCEPT !.already_expired = None ]

\* The instant a polled tick() future is ready.
TickReadyAt(tm, fut) ==
    IF fut.kind = "sleep" THEN fut.until ELSE tm.deadline

TickIsWaiting(fut) == fut.kind \in {"sleep", "delay"}

TickReady(tm, fut, t) == TickIsWaiting(fut) /\ t >= TickReadyAt(tm, fut)

\* tick(), completion at instant t: the timer it leaves.  After sleep():
\* delay.reset().  After delay.tick(): the Interval schedules its next tick
\* one period after the deadline, or after now when the tick was missed.
TickComplete_Mutant(tm, fut, t) ==
    [ tm EXCEPT
        !.deadline = IF fut.kind = "sleep" THEN t + tm.period
                     ELSE tm.deadline + tm.period,
        !.last_interaction = t ]
TickComplete(tm, fut, t) ==
    [ tm EXCEPT
        !.deadline = IF fut.kind = "sleep" THEN t + tm.period
                     ELSE IF t > tm.deadline THEN t + tm.period
                     ELSE tm.deadline + tm.period,
        !.last_interaction = t ]


(***************************************************************************)
(* The modelled configuration and file system.                             *)
(***************************************************************************)
ConfigGalleries == {"g1", "g2"}          \* Configuration::galleries
GalleryNames == ConfigGalleries \cup {"gx"}   \* names a request or a file may carry
\* A source folder and a directory entry.
Dir(readable, entries) == [ readable |-> readable, entries |-> entries ]
Entry(path, is_file) == [ path |-> path, is_file |-> is_file ]
\* The source folders of the galleries: g1 holds two images; g2 has a folder
\* that cannot be read and a folder that holds only a subdirectory.
Folders ==
    [ g \in ConfigGalleries |->
        IF g = "g1"
        THEN { Dir(TRUE, { Entry("a", TRUE), Entry("b", TRUE) }) }
        ELSE { Dir(FALSE, { Entry("c", TRUE) }), Dir(TRUE, { Entry("d", FALSE) }) } ]
\* select_random_image, all_files: read_dir(dir).ok() skips a folder that
\* cannot be read, and only entries whose path is_file() are kept.
AllFiles_Mutant(folders) == UNION { { e.path : e \in d.entries } : d \in folders }
AllFiles(folders) ==
    UNION { IF d.readable THEN { e.path : e \in { x \in d.entries : x.is_file } } ELSE {}
            : d \in folders }
SomeFiles == [ g \in ConfigGalleries |-> AllFiles(Folders[g]) ]
NoFiles == [ g \in ConfigGalleries |-> {} ]
RetryValues == {0, 1}                    \* Configuration::number_retries
MillisValues == {0, 1}                   \* UpdateInterval::millis

\* PersistentState (with the capacity of its CircularQueue, which serde stores)
PState(g, buf, cap, paused) ==
    [ valid |-> TRUE, current_gallery |-> g, recenty_selected |-> buf,
      capacity |-> cap, is_paused |-> paused ]
\* A state file that serde_json cannot parse.
CorruptFile ==
    [ valid |-> FALSE, current_gallery |-> None, recenty_selected |-> <<>>,
      capacity |-> 0, is_paused |-> FALSE ]
\* The state files found on disk at startup.
DiskFiles ==
    { None,
      Some(PState(Some("g2"), <<"a">>, BufCap, TRUE)),
      Some(PState(Some("gx"), <<>>, BufCap, FALSE)),
      Some(CorruptFile) }

(***************************************************************************)
(* main.rs: selection                                                      *)
(***************************************************************************)
InBuf(buf, x) == \E i \in 1..Len(buf) : buf[i] = x

\* CircularQueue::push: the oldest entry is overwritten when the queue is full.
Push(buf, cap, x) ==
    IF cap = 0 THEN buf
    ELSE IF Len(buf) < cap THEN Append(buf, x)
    ELSE Append(Tail(buf), x)

\* select_random_image: every result the random draws can give, as
\* [path |-> Option, buf |-> the recency buffer afterwards, drawn |-> the
\* draws of all_files.choose, in order].
SelectLoop_MutantPush(fs, buf, cap, tries_left) ==
    IF fs = {} THEN { [ path |-> None, buf |-> buf, drawn |-> <<>> ] }
    ELSE { [ path |-> Some(f), buf |-> Push(buf, cap, f), drawn |-> <<f>> ] : f \in fs }
SelectLoop_Mutant(fs, buf, cap, tries_left) ==
    IF fs = {} THEN { [ path |-> None, buf |-> buf, drawn |-> <<>> ] }
    ELSE { [ path |-> Some(f), buf |-> IF InBuf(buf, f) THEN buf ELSE Push(buf, cap, f),
             drawn |-> <<f>> ] : f \in fs }
RECURSIVE SelectLoop(_, _, _, _)
SelectLoop(fs, buf, cap, tries_left) ==
    IF fs = {} THEN { [ path |-> None, buf |-> buf, drawn |-> <<>> ] }
    ELSE UNION { IF tries_left = 0
                 THEN { [ path |-> Some(f), buf |-> buf, drawn |-> <<f>> ] }
                 ELSE IF ~InBuf(buf, f)
                      THEN { [ path |-> Some(f), buf |-> Push(buf, cap, f),
                               drawn |-> <<f>> ] }
                      ELSE { [ r EXCEPT !.drawn = <<f>> \o r.drawn ]
                             : r \in SelectLoop(fs, buf, cap, tries_left - 1) }
               : f \in fs }

SelectRandomImage(fs, regs, p, retries) ==
    IF ~IsSome(p.current_gallery) \/ Unwrap(p.current_gallery) \notin regs
    THEN { [ path |-> None, buf |-> p.recenty_selected, drawn |-> <<>> ] }
    ELSE SelectLoop(fs[Unwrap(p.current_gallery)], p.recenty_selected,
                    p.capacity, retries)

(***************************************************************************)
(* main.rs: persistence                                                    *)
(***************************************************************************)
\* persist(): with a storage file, the state file afterwards.  (A write that
\* fails is only logged; the model's writes succeed.)
Persist(enabled, disk, p) == IF enabled THEN Some(p) ELSE disk

(***************************************************************************)
(* main.rs: the update lifecycle                                           *)
(***************************************************************************)
\* tokio::spawn(async move { cmd.spawn().unwrap().wait().await }): the
\* process starts, or cmd.spawn() fails and the task panics at once.
Spawn(alive, cmd) == { alive \cup {cmd.id}, alive }

\* update(), the match on self.update_task: does the new command go to the
\* pending slot?
GoesToPending_Mutant(task) == FALSE
GoesToPending_MutantAlways(task) == TRUE
GoesToPending(task) == IsSome(task)

\* update(), the arm Some(_): a pending command is discarded for the new one.
SetPending_Mutant(pending, cmd) == IF IsSome(pending) THEN pending ELSE Some(cmd)
SetPending(pending, cmd) == Some(cmd)

\* The JoinHandle in update_task is ready: its process is gone.
TaskFinished_Mutant(task, alive) == FALSE
TaskFinished(task, alive) == IsSome(task) /\ Unwrap(task).id \notin alive

\* A command is known by an id that no command held in a slot or by a live
\* process carries.  (The image path it shows is not part of the model.)
CmdIds == 1..4
FreshId(task, pending, alive) ==
    LET used == alive \cup { task[i].id : i \in 1..Len(task) }
                      \cup { pending[i].id : i \in 1..Len(pending) }
    IN  IF CmdIds \ used = {} THEN 1
        ELSE CHOOSE i \in CmdIds \ used : \A j \in CmdIds \ used : i <= j

\* update(): every outcome, from the state s =
\* [persistent, update_task, pending_update, procs, stored, latest].
Update(s, fs, regs, retries, enabled) ==
    UNION {
      IF ~IsSome(sel.path)
      THEN { s }
      ELSE LET p2 == [ s.persistent EXCEPT !.recenty_selected = sel.buf ]
               cmd == [ id |-> FreshId(s.update_task, s.pending_update, s.procs) ]
               saved == [ s EXCEPT !.persistent = p2,
                                   !.stored = Persist(enabled, s.stored, p2),
                                   !.latest = cmd.id ]
           IN  IF GoesToPending(s.update_task)
               THEN { [ saved EXCEPT !.pending_update = SetPending(s.pending_update, cmd) ] }
               ELSE { [ saved EXCEPT !.update_task = Some(cmd), !.procs = alive ]
                      : alive \in Spawn(s.procs, cmd) }
      : sel \in SelectRandomImage(fs, regs, s.persistent, retries) }

(***************************************************************************)
(* main.rs: requests                                                       *)
(***************************************************************************)
Req(method, name, refresh, millis) ==
    [ method |-> method, name |-> name, refresh |-> refresh, millis |-> millis ]
NextImage == Req("NextImage", "", FALSE, 0)
UpdateIntervalReq(m) == Req("UpdateInterval", "", FALSE, m)
SelectGallery(n, r) == Req("SelectGallery", n, r, 0)
PauseReq == Req("Pause", "", FALSE, 0)
ResumeReq == Req("Resume", "", FALSE, 0)
\* msg.request() is Err: the payload did not decode.
Undecodable == Req("Undecodable", "", FALSE, 0)
Requests ==
    {NextImage, PauseReq, ResumeReq, Undecodable}
    \cup { UpdateIntervalReq(m) : m \in MillisValues }
    \cup { SelectGallery(n, r) : n \in GalleryNames, r \in BOOLEAN }

\* reply when the last step handled no request
NoReply == [ req |-> Req("", "", FALSE, 0), resp |-> "" ]

\* change_gallery: Ok(()) or Err
ChangeGalleryOk(regs, name) == name \in regs

\* change_gallery: the persistent state it leaves
ChangeGallery_Mutant(regs, p, name) == [ p EXCEPT !.current_gallery = Some(name) ]
ChangeGallery(regs, p, name) ==
    IF ChangeGalleryOk(regs, name) THEN [ p EXCEPT !.current_gallery = Some(name) ] ELSE p

\* handle_message: the Response of each match arm that reaches msg.respond
ResponseOf(regs, req) ==
    CASE req.method = "NextImage" -> "NewImage"
      [] req.method = "UpdateInterval" -> "NewImage"
      [] req.method = "SelectGallery" ->
            IF ChangeGalleryOk(regs, req.name) THEN "NewImage" ELSE "InvalidGallery"
      [] req.method \in {"Pause", "Resume"} -> "Ok"
      [] OTHER -> "BadRequest"

\* The slots and the persisted part, as update() and persist() read them.
Slots ==
    [ persistent |-> persistent, update_task |-> update_task,
      pending_update |-> pending_update, procs |-> procs, stored |-> stored,
      latest |-> latest ]

SetSlots(o) ==
    /\ persistent' = o.persistent
    /\ update_task' = o.update_task
    /\ pending_update' = o.pending_update
    /\ procs' = o.procs
    /\ stored' = o.stored
    /\ latest' = o.latest

(***************************************************************************)
(* Init: the state ApplicationState::new leaves, with the state file that  *)
(* is on disk.                                                             *)
(***************************************************************************)
\* tk: the result of the last tick().await, how long it waited, the unpaused
\* time that had elapsed before it since the previous Completed or the
\* creation, whether no tick had completed since the creation (first), and
\* whether in addition no pause(true) had taken effect (fresh).
TickOutcome(result, waited, elapsed, first, fresh) ==
    [ result |-> result, waited |-> waited, elapsed |-> elapsed, first |-> first,
      fresh |-> fresh ]
NoTick == TickOutcome("", 0, 0, FALSE, FALSE)

\* pick: the path the last select_random_image() returned, its draws, and the
\* recency buffer it found.
NoSel == [ path |-> None, drawn |-> <<>>, before |-> <<>> ]

New ==
    /\ pc = "new"
    /\ galleries = {}
    /\ persistent = PState(None, <<>>, DefaultBufferSize, FALSE)
    /\ number_retries = DefaultRetries
    /\ storage_file = TRUE
    /\ update_interval = TimerNew(DefaultInterval, 0)
    /\ tickFut = FutUnpolled
    /\ update_task = None
    /\ pending_update = None
    /\ procs = {}
    /\ now = 0
    /\ latest = 0
    /\ reply = NoReply
    /\ since = "new"
    /\ unpaused = 0
    /\ tk = NoTick
    /\ pick = NoSel
    /\ signal = FALSE

Init ==
    /\ New
    /\ files = SomeFiles
    /\ stored \in DiskFiles

(***************************************************************************)
(* main.rs: update_configuration                                           *)
(***************************************************************************)
\* update_persistent_state, the capacity migration: the items are pushed,
\* oldest first, into a queue of the target capacity.
PushAll_Mutant(buf, cap, items) ==
    SubSeq(items, 1, IF Len(items) < cap THEN Len(items) ELSE cap)
RECURSIVE PushAll(_, _, _)
PushAll(buf, cap, items) ==
    IF items = <<>> THEN buf
    ELSE PushAll(Push(buf, cap, Head(items)), cap, Tail(items))

Migrate(new_state, target_capacity) ==
    IF new_state.capacity # target_capacity
    THEN [ new_state EXCEPT !.capacity = target_capacity,
                            !.recenty_selected =
                                PushAll(<<>>, target_capacity, new_state.recenty_selected) ]
    ELSE new_state

\* update_persistent_state: Ok(()) or the bail!
LoadOk_Mutant(regs, new_state) == TRUE
LoadOk(regs, new_state) ==
    ~IsSome(new_state.current_gallery) \/ Unwrap(new_state.current_gallery) \in regs

\* A Configuration, as read_configuration parses it.
Config(default_gallery, interval, retries, storage, update_immediately) ==
    [ default_gallery |-> default_gallery, update_interval_ms |-> interval,
      number_retries |-> retries, storage_file |-> storage,
      update_immediately |-> update_immediately,
      recent_image_buffer_size |-> BufCap ]

\* update_configuration.  A failure of any `?` (unknown default gallery, a
\* listener that cannot connect, a state file that cannot be read or parsed)
\* returns the error, which ends the program.
ConfigError(config, io_ok) ==
    \/ ~ChangeGalleryOk(ConfigGalleries, config.default_gallery)
    \/ PeriodPanics(config.update_interval_ms)
    \/ ~io_ok
    \/ config.storage_file /\ IsSome(stored) /\ ~Unwrap(stored).valid

ConfigureFails(config, io_ok) ==
    /\ pc = "new"
    /\ ConfigError(config, io_ok)
    /\ pc' = "config_failed"
    /\ UNCHANGED <<files, galleries, persistent, number_retries, storage_file, stored,
                   update_interval, tickFut, update_task, pending_update, procs,
                   now, latest, reply, since, unpaused, tk, pick, signal>>

Configure(config) ==
    /\ pc = "new"
    /\ ~ConfigError(config, TRUE)
    /\ LET p0 == ChangeGallery(ConfigGalleries, persistent, config.default_gallery)
           p1 == IF config.recent_image_buffer_size # p0.capacity
                 THEN [ p0 EXCEPT !.capacity = config.recent_image_buffer_size,
                                  !.recenty_selected = <<>> ]
                 ELSE p0
           tm0 == TimerNew(config.update_interval_ms, now)
           has_file == config.storage_file /\ IsSome(stored)
           loaded == Migrate(Unwrap(stored), p1.capacity)
           accept == has_file /\ LoadOk(ConfigGalleries, loaded)
           p2 == IF accept THEN loaded ELSE p1
           tm1 == IF accept THEN TimerPause(tm0, p2.is_paused, now) ELSE tm0
           \* if !config.update_immediately { self.update_interval.tick().await; }
           \* The interval was created at this instant: a tick that is not
           \* Paused is ready at once.
           ticks == ~config.update_immediately /\ ~tm1.is_paused
           tm2 == IF ticks
                  THEN TickComplete(TickPollTimer(tm1), TickPollFut(tm1, now), now)
                  ELSE tm1
       IN  /\ galleries' = ConfigGalleries
           /\ persistent' = p2
           /\ update_interval' = tm2
           /\ stored' = IF has_file /\ ~accept THEN None ELSE stored
           /\ since' = IF config.update_immediately THEN "immediate" ELSE "startup"
    /\ number_retries' = config.number_retries
    /\ storage_file' = config.storage_file
    /\ pc' = "run"
    /\ UNCHANGED <<files, tickFut, update_task, pending_update, procs, now, latest,
                   reply, unpaused, tk, pick, signal>>

(***************************************************************************)
(* main.rs: run, one select! iteration per handled event.                  *)
(*                                                                         *)
(* select! polls its branches in a random order until one is ready.  The   *)
(* tick() future is polled (PollTick) before the task suspends; a branch   *)
(* that is ready earlier may complete before tick() was ever polled.  The  *)
(* branch that completes drops the futures of the others: tickFut goes     *)
(* back to unpolled.  The handlers take no time.                           *)
(***************************************************************************)
Running == pc = "run"

\* The loop ends: main returns (or unwinds) and the ApplicationState is
\* dropped.  The state file and the display process outlive it.
Ended(how) ==
    /\ pc' = how
    /\ galleries' = {}
    /\ persistent' = PState(None, <<>>, DefaultBufferSize, FALSE)
    /\ number_retries' = DefaultRetries
    /\ storage_file' = FALSE
    /\ update_interval' = TimerNew(DefaultInterval, 0)
    /\ tickFut' = FutUnpolled
    /\ update_task' = None
    /\ pending_update' = None
    /\ now' = 0
    /\ latest' = 0
    /\ since' = "new"
    /\ unpaused' = 0
    /\ UNCHANGED <<files, stored, procs, tk, pick, signal>>

PollTick ==
    /\ Running
    /\ tickFut.kind = "unpolled"
    /\ tickFut' = TickPollFut(update_interval, now)
    /\ update_interval' = TickPollTimer(update_interval)
    /\ reply' = NoReply
    /\ UNCHANGED <<pc, files, galleries, persistent, number_retries, storage_file, stored,
                   update_task, pending_update, procs, now, latest, since,
                   unpaused, tk, pick, signal>>

\* TickResult::Completed = self.update_interval.tick() => self.update().await
TimerCompleted ==
    /\ Running
    /\ TickReady(update_interval, tickFut, now)
    /\ update_interval' = TickComplete(update_interval, tickFut, now)
    /\ \E o \in Update(Slots, files, galleries, number_retries, storage_file) : SetSlots(o)
    /\ tickFut' = FutUnpolled
    /\ since' = "completed"
    /\ unpaused' = 0
    /\ reply' = NoReply
    /\ UNCHANGED <<pc, files, galleries, number_retries, storage_file, now, tk, pick, signal>>

\* _ = self.update_task.as_mut().unwrap().await, if self.update_task.is_some()
UpdateFinished ==
    /\ Running
    /\ TaskFinished(update_task, procs)
    /\ pending_update' = None
    /\ IF IsSome(pending_update)
       THEN /\ update_task' = pending_update
            /\ procs' \in Spawn(procs, Unwrap(pending_update))
       ELSE /\ update_task' = None
            /\ procs' = procs
    /\ tickFut' = FutUnpolled
    /\ reply' = NoReply
    /\ UNCHANGED <<pc, files, galleries, persistent, number_retries, storage_file, stored,
                   update_interval, now, latest, since, unpaused, tk, pick, signal>>

\* handle_message, the arms of the match, and msg.respond.  (A response that
\* cannot be delivered is logged and changes nothing.)
HandleNextImage ==
    /\ Running
    /\ \E o \in Update(Slots, files, galleries, number_retries, storage_file) : SetSlots(o)
    /\ update_interval' = TimerReset(update_interval, now)
    /\ since' = "reset"
    /\ unpaused' = 0
    /\ reply' = [ req |-> NextImage, resp |-> ResponseOf(galleries, NextImage) ]
    /\ tickFut' = FutUnpolled
    /\ UNCHANGED <<pc, files, galleries, number_retries, storage_file, now, tk, pick, signal>>

HandleUpdateInterval(millis) ==
    /\ Running
    /\ IF PeriodPanics(millis)
       THEN /\ Ended("panicked")
            /\ reply' = [ req |-> UpdateIntervalReq(millis), resp |-> "" ]
       ELSE /\ update_interval' =
                   TimerPause(TimerNew(millis, now), update_interval.is_paused, now)
            /\ since' = IF update_interval.is_paused THEN "new_paused" ELSE "new"
            /\ unpaused' = 0
            /\ reply' = [ req |-> UpdateIntervalReq(millis),
                          resp |-> ResponseOf(galleries, UpdateIntervalReq(millis)) ]
            /\ tickFut' = FutUnpolled
            /\ UNCHANGED <<pc, files, galleries, persistent, number_retries, storage_file, stored,
                           update_task, pending_update, procs, now, latest, tk, pick, signal>>

HandleSelectGallery(name, refresh) ==
    /\ Running
    /\ LET changed == [ Slots EXCEPT
                          !.persistent = ChangeGallery(galleries, persistent, name) ]
       IN  IF ChangeGalleryOk(galleries, name) /\ refresh
           THEN \E o \in Update(changed, files, galleries, number_retries, storage_file) : SetSlots(o)
           ELSE SetSlots(changed)
    /\ reply' = [ req |-> SelectGallery(name, refresh),
                  resp |-> ResponseOf(galleries, SelectGallery(name, refresh)) ]
    /\ tickFut' = FutUnpolled
    /\ UNCHANGED <<pc, files, galleries, number_retries, storage_file, update_interval,
                   now, since, unpaused, tk, pick, signal>>

HandlePause(paused) ==
    /\ Running
    /\ LET tm == TimerPause(update_interval, paused, now)
           p2 == [ persistent EXCEPT !.is_paused = tm.is_paused ]
       IN  /\ update_interval' = tm
           /\ persistent' = p2
           /\ stored' = Persist(storage_file, stored, p2)
    /\ reply' = [ req |-> IF paused THEN PauseReq ELSE ResumeReq,
                  resp |-> ResponseOf(galleries, IF paused THEN PauseReq ELSE ResumeReq) ]
    /\ tickFut' = FutUnpolled
    /\ UNCHANGED <<pc, files, galleries, number_retries, storage_file, update_task,
                   pending_update, procs, now, latest, since, unpaused, tk, pick, signal>>

HandleUndecodable ==
    /\ Running
    /\ reply' = [ req |-> Undecodable, resp |-> ResponseOf(galleries, Undecodable) ]
    /\ tickFut' = FutUnpolled
    /\ UNCHANGED <<pc, files, galleries, persistent, number_retries, storage_file, stored,
                   update_interval, update_task, pending_update, procs, now, latest,
                   since, unpaused, tk, pick, signal>>

HandleMessage(req) ==
    CASE req.method = "NextImage" -> HandleNextImage
      [] req.method = "UpdateInterval" -> HandleUpdateInterval(req.millis)
      [] req.method = "SelectGallery" -> HandleSelectGallery(req.name, req.refresh)
      [] req.method = "Pause" -> HandlePause(TRUE)
      [] req.method = "Resume" -> HandlePause(FALSE)
      [] OTHER -> HandleUndecodable

\* The configured listeners (ListenerConfiguration): each feeds the results
\* of its receive_message() into the message queue.
Listeners == {"UnixSocket", "Mqtt"}

\* Some(message) = self.message_queue.recv(), message is Err: return
ListenerError ==
    /\ Running
    /\ Ended("failed")
    /\ reply' = NoReply

\* _ = &mut shutdown_task => break
Shutdown ==
    /\ Running
    /\ Ended("exited")
    /\ reply' = NoReply

(***************************************************************************)
(* The environment: a display process exits; time passes.                  *)
(***************************************************************************)
ProcessExits ==
    /\ Running
    /\ \E id \in procs : procs' = procs \ {id}
    /\ UNCHANGED <<pc, files, galleries, persistent, number_retries, storage_file, stored,
                   update_interval, tickFut, update_task, pending_update, now, latest,
                   reply, since, unpaused, tk, pick, signal>>

\* Time passes while the select! is suspended: every branch has been polled
\* and none is ready.
AdvanceTime(limit) ==
    /\ Running
    /\ now < limit
    /\ tickFut.kind # "unpolled"
    /\ ~TickReady(update_interval, tickFut, now)
    /\ ~TaskFinished(update_task, procs)
    /\ now' = now + 1
    /\ unpaused' = IF update_interval.is_paused THEN unpaused ELSE unpaused + 1
    /\ reply' = NoReply
    /\ UNCHANGED <<pc, files, galleries, persistent, number_retries, storage_file, stored,
                   update_interval, tickFut, update_task, pending_update, procs,
                   latest, since, tk, pick, signal>>

(***************************************************************************)
(* Spec: the daemon, with files in one gallery, every configuration of     *)
(* Configs and every request, over a short stretch of time.                *)
(***************************************************************************)
Configs ==
    { Config(g, LoopInterval, r, st, ui) :
        g \in {"g1", "gx"}, r \in RetryValues, st \in BOOLEAN, ui \in BOOLEAN }

Next ==
    \/ \E c \in Configs, io \in BOOLEAN : ConfigureFails(c, io)
    \/ \E c \in Configs : Configure(c)
    \/ PollTick
    \/ TimerCompleted
    \/ UpdateFinished
    \/ \E req \in Requests : HandleMessage(req)
    \/ ListenerError
    \/ Shutdown
    \/ ProcessExits
    \/ AdvanceTime(LoopMaxTime)

Spec == Init /\ [][Next]_vars

(***************************************************************************)
(* SpawnSpec: the daemon where no display process ever exits: a command in *)
(* the running slot without a live process is one whose launch failed.     *)
(***************************************************************************)
SpawnInit ==
    /\ New
    /\ files = SomeFiles
    /\ stored = None

SpawnConfigs ==
    { Config("g1", LoopInterval, 1, FALSE, ui) : ui \in BOOLEAN }

SpawnNext ==
    \/ \E c \in SpawnConfigs, io \in BOOLEAN : ConfigureFails(c, io)
    \/ \E c \in SpawnConfigs : Configure(c)
    \/ PollTick
    \/ TimerCompleted
    \/ UpdateFinished
    \/ \E req \in Requests : HandleMessage(req)
    \/ ListenerError
    \/ Shutdown
    \/ AdvanceTime(LoopMaxTime)

SpawnSpec == SpawnInit /\ [][SpawnNext]_vars

(***************************************************************************)
(* ShutdownSpec: the daemon with the arrival of the shutdown signal and    *)
(* the break of the loop as two steps.  Between them the select! may serve *)
(* other branches that are ready; it picks among the ready branches at     *)
(* random, so the shutdown branch, ready from the arrival on, is taken in  *)
(* the end (weak fairness).  A process may run for ever.                   *)
(***************************************************************************)
\* shutdown_signal_received() returns: ctrl_c or SIGTERM
SignalReceived ==
    /\ Running
    /\ ~signal
    /\ signal' = TRUE
    /\ UNCHANGED <<pc, files, galleries, persistent, number_retries, storage_file, stored,
                   update_interval, tickFut, update_task, pending_update, procs, now,
                   latest, reply, since, unpaused, tk, pick>>

\* _ = &mut shutdown_task: the branch is ready once the signal has arrived,
\* whatever the slots hold.
BreakReady_Mutant(sig, task) == sig /\ ~IsSome(task)
BreakReady(sig, task) == sig

ShutdownBreak ==
    /\ BreakReady(signal, update_task)
    /\ Shutdown

ShutdownRequests == {NextImage, PauseReq, ResumeReq}

ShutdownInit ==
    /\ New
    /\ files = SomeFiles
    /\ stored = None

ShutdownNext ==
    \/ \E c \in SpawnConfigs : Configure(c)
    \/ PollTick
    \/ TimerCompleted
    \/ UpdateFinished
    \/ \E req \in ShutdownRequests : HandleMessage(req)
    \/ ProcessExits
    \/ ~signal /\ AdvanceTime(LoopMaxTime)
    \/ SignalReceived
    \/ ShutdownBreak

ShutdownSpec == ShutdownInit /\ [][ShutdownNext]_vars /\ WF_vars(ShutdownBreak)

(***************************************************************************)
(* LiveSpec: the daemon with no shutdown, no listener error and none of    *)
(* the requests that restart or stop the timer, started with or without a  *)
(* paused snapshot.  Time passes whether the loop is suspended or busy     *)
(* (weak fairness: it does not stop).  The select! picks among its ready   *)
(* branches at random: the tick() is polled in the end (weak fairness),    *)
(* and a tick that is ready again and again, each request making it        *)
(* unpolled, completes in the end (strong fairness).                       *)
(***************************************************************************)
LiveConfigs ==
    { Config("g1", Interval, 0, TRUE, ui) : ui \in BOOLEAN }

LiveRequests == {ResumeReq, SelectGallery("g1", TRUE), Undecodable}

LiveInit ==
    /\ New
    /\ files = SomeFiles
    /\ stored \in { None, Some(PState(Some("g2"), <<"a">>, BufCap, TRUE)) }

\* Time passes.
TimePasses ==
    /\ Running
    /\ now < MaxTime
    /\ now' = now + 1
    /\ unpaused' = IF update_interval.is_paused THEN unpaused ELSE unpaused + 1
    /\ reply' = NoReply
    /\ UNCHANGED <<pc, files, galleries, persistent, number_retries, storage_file, stored,
                   update_interval, tickFut, update_task, pending_update, procs,
                   latest, since, tk, pick, signal>>

LiveNext ==
    \/ \E c \in LiveConfigs : Configure(c)
    \/ PollTick
    \/ TimerCompleted
    \/ UpdateFinished
    \/ \E req \in LiveRequests : HandleMessage(req)
    \/ ProcessExits
    \/ TimePasses

LiveSpec ==
    /\ LiveInit
    /\ [][LiveNext]_vars
    /\ WF_vars(TimePasses)
    /\ WF_vars(PollTick)
    /\ SF_vars(TimerCompleted)

(***************************************************************************)
(* TimedSpec: the daemon over a longer stretch of time, with a longer      *)
(* interval, where no gallery folder holds a file: update() finds no image *)
(* and no display process is ever launched.                                *)
(***************************************************************************)
TimedConfigs ==
    { Config("g1", Interval, 1, st, ui) : st \in BOOLEAN, ui \in BOOLEAN }

TimedInit ==
    /\ New
    /\ files = NoFiles
    /\ stored = None

TimedNext ==
    \/ \E c \in TimedConfigs : Configure(c)
    \/ PollTick
    \/ TimerCompleted
    \/ \E req \in Requests : HandleMessage(req)
    \/ ListenerError
    \/ Shutdown
    \/ AdvanceTime(MaxTime)

TimedSpec == TimedInit /\ [][TimedNext]_vars

(***************************************************************************)
(* TimerSpec: the PausableInterval alone, driven as the tests of timer.rs  *)
(* drive it: pause(true), pause(false), sleep and tick().await one after   *)
(* the other, so that no call is made while a tick() is pending.           *)
(***************************************************************************)
TimerInit ==
    /\ pc = "timer"
    /\ files = NoFiles
    /\ galleries = {}
    /\ persistent = PState(None, <<>>, DefaultBufferSize, FALSE)
    /\ number_retries = DefaultRetries
    /\ storage_file = FALSE
    /\ stored = None
    /\ update_interval = TimerNew(Interval, 0)
    /\ tickFut = FutUnpolled
    /\ update_task = None
    /\ pending_update = None
    /\ procs = {}
    /\ now = 0
    /\ latest = 0
    /\ reply = NoReply
    /\ since = "new"
    /\ unpaused = 0
    /\ tk = NoTick
    /\ pick = NoSel
    /\ signal = FALSE

\* interval.pause(paused)
CallPause(paused) ==
    /\ pc = "timer"
    /\ update_interval' = TimerPause(update_interval, paused, now)
    /\ UNCHANGED <<pc, files, galleries, persistent, number_retries, storage_file, stored,
                   tickFut, update_task, pending_update, procs, now, latest, reply,
                   since, unpaused, tk, pick, signal>>

\* sleep(1 unit).await
Sleep ==
    /\ pc = "timer"
    /\ now < MaxTime
    /\ now' = now + 1
    /\ unpaused' = IF update_interval.is_paused THEN unpaused ELSE unpaused + 1
    /\ UNCHANGED <<pc, files, galleries, persistent, number_retries, storage_file, stored,
                   update_interval, tickFut, update_task, pending_update, procs,
                   latest, reply, since, tk, pick, signal>>

\* measure(interval.tick()).await: the call runs to its end.
CallTick ==
    /\ pc = "timer"
    /\ now <= MaxTime
    /\ LET fut == TickPollFut(update_interval, now)
           tm == TickPollTimer(update_interval)
           ready == Max(now, TickReadyAt(tm, fut))
       IN  IF fut.kind = "paused"
           THEN /\ tk' = TickOutcome("Paused", 0, 0, FALSE, FALSE)
                /\ UNCHANGED <<update_interval, now, since, unpaused>>
           ELSE /\ tk' = TickOutcome("Completed", ready - now, unpaused, since = "new",
                                     since = "new" /\ ~IsSome(update_interval.already_expired))
                /\ update_interval' = TickComplete(tm, fut, ready)
                /\ now' = ready
                /\ since' = "completed"
                /\ unpaused' = 0
    /\ UNCHANGED <<pc, files, galleries, persistent, number_retries, storage_file, stored,
                   tickFut, update_task, pending_update, procs, latest, reply, pick, signal>>

TimerNext ==
    \/ \E paused \in BOOLEAN : CallPause(paused)
    \/ Sleep
    \/ CallTick

TimerSpec == TimerInit /\ [][TimerNext]_vars

(***************************************************************************)
(* FunSpec: update_persistent_state and select_random_image alone, on      *)
(* every snapshot, recency buffer, file set and retry budget of the        *)
(* bounds.  A snapshot is loaded at most once, before the selections.      *)
(***************************************************************************)
Paths == {"a", "b", "c"}
FileSets == { {}, {"a"}, {"a", "b"}, {"a", "b", "c"} }

\* The contents a CircularQueue of capacity cap can have, oldest first.
Buffers(cap) == UNION { [1..k -> Paths] : k \in 0..cap }

\* The snapshots serde_json can parse.  (current_gallery is an Option: a file
\* where it is null or missing parses, with None.)
Snapshots ==
    UNION { { PState(g, buf, cap, paused) :
                g \in {Some("g1"), Some("gx"), None}, buf \in Buffers(cap),
                paused \in BOOLEAN }
            : cap \in 0..MaxCap }

FunInit ==
    /\ pc = "fun"
    /\ files \in { [ SomeFiles EXCEPT !["g1"] = fs ] : fs \in FileSets }
    /\ galleries = ConfigGalleries
    /\ persistent \in { PState(Some("g1"), <<>>, cap, FALSE) : cap \in 0..MaxCap }
    /\ number_retries \in 0..MaxRetries
    /\ storage_file = TRUE
    /\ stored \in { Some(x) : x \in Snapshots }
    /\ update_interval = TimerNew(DefaultInterval, 0)
    /\ tickFut = FutUnpolled
    /\ update_task = None
    /\ pending_update = None
    /\ procs = {}
    /\ now = 0
    /\ latest = 0
    /\ reply = NoReply
    /\ since = "new"
    /\ unpaused = 0
    /\ tk = NoTick
    /\ pick = NoSel
    /\ signal = FALSE

\* if self.update_persistent_state(state).is_err() { remove_file(&state_file)?; }
\* state being the parsed state file
Load ==
    /\ pc = "fun"
    /\ LET loaded == Migrate(Unwrap(stored), persistent.capacity)
       IN  IF LoadOk(galleries, loaded)
           THEN /\ persistent' = loaded
                /\ update_interval' = TimerPause(update_interval, loaded.is_paused, now)
                /\ pc' = "loaded"
                /\ UNCHANGED stored
           ELSE /\ pc' = "rejected"
                /\ stored' = None
                /\ UNCHANGED <<persistent, update_interval>>
    /\ UNCHANGED <<files, galleries, number_retries, storage_file, tickFut,
                   update_task, pending_update, procs, now, latest, reply, since,
                   unpaused, tk, pick, signal>>

\* self.select_random_image().await
Select ==
    /\ pc \in {"fun", "loaded", "rejected", "selected"}
    /\ pc' = "selected"
    /\ \E o \in SelectRandomImage(files, galleries, persistent, number_retries) :
          /\ persistent' = [ persistent EXCEPT !.recenty_selected = o.buf ]
          /\ pick' = [ path |-> o.path, drawn |-> o.drawn,
                       before |-> persistent.recenty_selected ]
    /\ UNCHANGED <<files, galleries, number_retries, storage_file, stored,
                   update_interval, tickFut, update_task, pending_update, procs, now,
                   latest, reply, since, unpaused, tk, signal>>

FunNext ==
    \/ Load
    \/ Select

FunSpec == FunInit /\ [][FunNext]_vars

(***************************************************************************)
(* Properties                                                              *)
(***************************************************************************)
Launched == procs' \ procs

\* C1: at most one display process is alive in every state, and a process
\* is launched only when the running slot is empty or in the step that
\* observes the exit of the previous one.
C1_SingleFlight ==
    /\ [](Cardinality(procs) <= 1)
    /\ [][Launched # {} => (~IsSome(update_task) \/ UpdateFinished)]_vars

\* A request resolved an image while a process was alive: its command waits.
C1_Witness ==
    /\ Running
    /\ Cardinality(procs) = 1
    /\ IsSome(update_task) /\ Unwrap(update_task).id \in procs
    /\ IsSome(pending_update)

\* C2: the pending slot holds the command built last; when the exit of the
\* running process is observed, the pending command (the latest) moves to the
\* running slot and is the one launched, or both slots become empty when
\* nothing is pending; a launched process is always the latest command.
C2_LatestWins ==
    /\ [](IsSome(pending_update) => Unwrap(pending_update).id = latest)
    /\ [][UpdateFinished => /\ update_task' = pending_update
                            /\ pending_update' = None
                            /\ Launched \subseteq {latest}]_vars
    /\ [][Launched # {} => Launched = {latest'}]_vars

\* A second command replaced a pending one, and was launched at the exit.
C2_Witness ==
    /\ Running
    /\ latest = 3
    /\ update_task = Some([ id |-> 3 ])
    /\ procs = {3}
    /\ pending_update = None

\* C3: a pending command leaves the pending slot only to be launched, to be
\* replaced by a newer one, or at shutdown.
C3_NeverLost ==
    [][IsSome(pending_update) =>
          \/ IsSome(pending_update')
          \/ UpdateFinished
          \/ pc' = "exited"]_vars

\* C4: tick() on a paused timer returns Paused at once and leaves the timer
\* alone; no tick() is waiting while the timer is paused; and the timer
\* triggers no update in a state where the timer is paused or a Pause request
\* was the last of the Pause and Resume requests.
C4_NoUpdateWhilePaused ==
    /\ [](update_interval.is_paused => ~TickIsWaiting(tickFut))
    /\ [][PollTick /\ update_interval.is_paused =>
             tickFut'.kind = "paused" /\ now' = now
             /\ update_interval' = update_interval]_vars
    /\ [][TimerCompleted => ~update_interval.is_paused /\ ~persistent.is_paused]_vars

\* The timer is paused past the instant its next tick was due.
C4_Witness ==
    /\ Running
    /\ update_interval.is_paused /\ persistent.is_paused
    /\ tickFut.kind = "paused"
    /\ now > 0 /\ now >= update_interval.deadline
    /\ since = "completed"


C6_ExactInterval ==
    [][TimerCompleted /\ since = "completed" => unpaused = update_interval.period]_vars

\* C7: after a NextImage, the next Completed of the timer comes no earlier
\* than one full interval of unpaused time after the reset.
C7_FullIntervalAfterReset ==
    [][TimerCompleted /\ since = "reset" => unpaused >= update_interval.period]_vars

\* C8: every handled request is answered by the Response of its row, and the
\* loop goes on.
C8_Dispatch ==
    reply.req.method # "" =>
        reply.resp = ResponseOf(ConfigGalleries, reply.req) /\ Running

\* A request the dispatcher rejects: unknown gallery name, or undecodable.
Rejected(req) ==
    \/ req.method = "Undecodable"
    \/ req.method = "SelectGallery" /\ req.name \notin ConfigGalleries

C10_SnapshotFollows ==
    [][Running /\ pc' = "run" /\ storage_file /\ persistent' # persistent =>
          stored' = Some(persistent')]_vars

\* The path the last selection returned is in the recency buffer it left.
Recorded == InBuf(persistent.recenty_selected, Unwrap(pick.path))

C12_WithinBudget ==
    pc = "selected" /\ persistent.current_gallery = Some("g1") /\ files["g1"] # {} =>
        /\ IsSome(pick.path)
        /\ Unwrap(pick.path) \in files["g1"]
        /\ Len(pick.drawn) \in 1..(number_retries + 1)
        /\ pick.drawn[Len(pick.drawn)] = Unwrap(pick.path)
        /\ InBuf(pick.before, Unwrap(pick.path)) =>
              /\ Len(pick.drawn) = number_retries + 1
              /\ \A i \in 1..number_retries : InBuf(pick.before, pick.drawn[i])

\* Every file is in the recency buffer: the budget of two retries is used up
\* and the third draw is returned.
C12_Witness ==
    /\ pc = "selected"
    /\ files["g1"] = {"a", "b"}
    /\ number_retries = 2
    /\ pick.before = <<"a", "b">>
    /\ pick.drawn = <<"a", "b", "a">>
    /\ pick.path = Some("a")

\* C13: a loaded snapshot of the configured capacity keeps its recency
\* buffer as it is; one of another capacity keeps its min(n, capacity) most
\* recent entries, in their order.
C13_ReloadKeepsBuffer ==
    pc = "loaded" =>
        LET old == Unwrap(stored).recenty_selected
            n == Len(old)
            k == IF n < persistent.capacity THEN n ELSE persistent.capacity
        IN  /\ Unwrap(stored).capacity = persistent.capacity =>
                  persistent.recenty_selected = old
            /\ Unwrap(stored).capacity # persistent.capacity =>
                  persistent.recenty_selected = SubSeq(old, n - k + 1, n)

\* A snapshot of capacity 2 holding two paths is loaded into a buffer of
\* capacity 1: the newer path is kept.
C13_Witness ==
    /\ pc = "loaded"
    /\ Unwrap(stored).capacity = 2
    /\ Unwrap(stored).recenty_selected = <<"a", "b">>
    /\ persistent.capacity = 1
    /\ persistent.recenty_selected = <<"b">>

\* C14: a snapshot naming a gallery that is not in the registry is never
\* loaded; when it is rejected the current gallery, the recency buffer, the
\* pause flag and the timer stay as configured, and the state file is removed.
C14_UnknownGalleryRejected ==
    /\ pc = "loaded" /\ IsSome(persistent.current_gallery) =>
          Unwrap(persistent.current_gallery) \in galleries
    /\ pc = "rejected" =>
          /\ persistent.current_gallery = Some("g1")
          /\ persistent.recenty_selected = <<>>
          /\ ~persistent.is_paused
          /\ update_interval = TimerNew(DefaultInterval, 0)
          /\ stored = None

\* A snapshot was rejected and its file is gone.
C14_Witness ==
    /\ pc = "rejected"
    /\ stored = None
    /\ persistent.capacity = 2

\* C18: with number_retries >= 1 and a capacity >= 1, a path the selection
\* returned is in the recency buffer afterwards.
C18_PickRecorded ==
    pc = "selected" /\ number_retries >= 1 /\ persistent.capacity >= 1
        /\ IsSome(pick.path) => Recorded

\* C15: the loop ends on a listener's error only when no other listener is
\* left.
C15_ListenerIsolated ==
    [][ListenerError => pc' = "run" \/ Cardinality(Listeners) = 1]_vars

\* C16: with update_immediately the first tick() that waits on the interval
\* is ready at once; without it the timer does not complete before one
\* interval of unpaused time has passed since the startup.
C16_StartupPolicy ==
    /\ [](Running /\ since = "immediate" /\ tickFut.kind = "delay" =>
             TickReady(update_interval, tickFut, now) /\ unpaused = 0)
    /\ [][TimerCompleted /\ since = "startup" =>
             unpaused >= update_interval.period]_vars

\* C17: a timer that replaced the old one while unpaused does not complete
\* before one period of unpaused time has passed since the request.
C17_NoUpdateByItself ==
    [][TimerCompleted /\ since = "new" => unpaused >= update_interval.period]_vars

\* A gallery none of whose folders is readable with a regular file in it, at
\* a time when the listing is that of its folders.
NoRegularFile(g) ==
    /\ files[g] = AllFiles(Folders[g])
    /\ \A d \in Folders[g] : ~d.readable \/ \A e \in d.entries : ~e.is_file

\* An update request: a timer tick, NextImage, or SelectGallery with
\* refresh = true.
UpdateRequest ==
    \/ TimerCompleted
    \/ HandleNextImage
    \/ \E n \in GalleryNames : HandleSelectGallery(n, TRUE)

\* C19: an update request made when the current gallery yields no regular
\* file launches no process and leaves the running slot, the pending slot and
\* the recency buffer as they were; a folder that cannot be read counts as
\* an empty one.  (Written contrapositively: with such a gallery, a step that
\* changes one of them is not an update request.)
C19_NoImageNoEffect ==
    [][/\ IsSome(persistent'.current_gallery)
       /\ Unwrap(persistent'.current_gallery) \in galleries
       /\ NoRegularFile(Unwrap(persistent'.current_gallery))
       /\ ~ /\ procs' = procs
            /\ update_task' = update_task
            /\ pending_update' = pending_update
            /\ persistent'.recenty_selected = persistent.recenty_selected
            /\ latest' = latest
       => ~UpdateRequest]_vars
\* NextImage was handled for g2 while a process of an earlier update runs
\* and an image of g1 is in the recency buffer.
C19_Witness ==
    /\ Running
    /\ reply.req = NextImage
    /\ persistent.current_gallery = Some("g2")
    /\ NoRegularFile("g2")
    /\ IsSome(update_task) /\ Unwrap(update_task).id \in procs
    /\ persistent.recenty_selected # <<>>

\* The last tick() was late: it completed when at least one whole interval
\* of unpaused time had passed beyond the instant it was due.
LateTick ==
    /\ tk.result = "Completed"
    /\ tk.elapsed >= update_interval.period
                      + (IF tk.fresh THEN 0 ELSE update_interval.period)

\* C20: a tick() that is called one or more whole intervals late completes
\* once, at once, and leaves the next tick due one full interval later; the
\* Completed after it comes no earlier than one full interval of unpaused
\* time after the late one, so that missed ticks are not delivered in a
\* burst.
C20_MissedTicksDoNotCompound ==
    /\ [][CallTick /\ LateTick' =>
             tk'.waited = 0 /\ update_interval'.deadline = now' + update_interval.period]_vars
    /\ [][CallTick /\ LateTick /\ tk'.result = "Completed" =>
             tk'.elapsed + tk'.waited >= update_interval.period]_vars
\* A tick() called after two whole intervals without a pause has completed
\* at once; it was not the first tick of the timer.
C20_Witness ==
    /\ pc = "timer"
    /\ LateTick
    /\ ~tk.first
    /\ tk.waited = 0
    /\ ~IsSome(update_interval.already_expired)
    /\ update_interval.deadline = now + update_interval.period

\* C21: no request ends the loop: whatever the request (every variant, every
\* gallery name, every millis value, 0 included), handling it yields a
\* Response and leaves the loop running.
C21_NoRequestEndsLoop ==
    [][(\E req \in Requests : HandleMessage(req)) =>
          pc' = "run" /\ reply'.resp # ""]_vars

\* The command of the running slot has no live process.  Under SpawnSpec no
\* process exits, so this is a command whose launch failed.
SpawnFailed ==
    /\ Running
    /\ IsSome(update_task)
    /\ Unwrap(update_task).id \notin procs

\* C22: a launch that fails does not wedge the lifecycle: the loop keeps
\* running, the task of the failed launch is ready and the loop clears the
\* running slot as on a process exit, launching the pending command if there
\* is one; an update request made with the slot empty again starts a command
\* at once.
C22_SpawnFailureNotWedged ==
    /\ [][Running /\ IsSome(update_task') /\ update_task' # update_task
             /\ Unwrap(update_task').id \notin procs' => pc' = "run"]_vars
    /\ [](SpawnFailed => ENABLED UpdateFinished)
    /\ [][SpawnFailed /\ UpdateFinished =>
             /\ pc' = "run"
             /\ update_task' = pending_update
             /\ pending_update' = None
             /\ IsSome(pending_update) =>
                    procs' \in Spawn(procs, Unwrap(pending_update))]_vars
    /\ [][HandleNextImage /\ ~IsSome(update_task)
             /\ IsSome(persistent.current_gallery)
             /\ files[Unwrap(persistent.current_gallery)] # {} =>
                    IsSome(update_task') /\ ~IsSome(pending_update')]_vars
\* Command 1 failed to launch while command 2 was pending; the loop cleared
\* the slot and launched command 2, which runs.
C22_Witness ==
    /\ Running
    /\ update_task = Some([ id |-> 2 ])
    /\ procs = {2}
    /\ ~IsSome(pending_update)

\* C23: a state file that cannot be parsed is not fatal: a configuration with
\* nothing else wrong with it does not fail, the loop is entered with the
\* default gallery, an empty recency buffer and no pause, and the file is
\* deleted.
C23_CorruptSnapshotNotFatal ==
    [][pc = "new" /\ IsSome(stored) /\ ~Unwrap(stored).valid =>
          \A c \in Configs :
              /\ c.storage_file /\ ChangeGalleryOk(ConfigGalleries, c.default_gallery) =>
                     ~ConfigureFails(c, TRUE)
              /\ Configure(c) /\ c.storage_file =>
                     /\ stored' = None
                     /\ persistent' = PState(Some(c.default_gallery), <<>>,
                                             c.recent_image_buffer_size, FALSE)]_vars

\* C24: once the shutdown signal has arrived the loop exits in the end,
\* whatever the lifecycle state (idle, running, running with a pending
\* command, paused); the step that exits does not wait for the display
\* process, which stays alive, and launches no process: a pending command
\* is dropped with the state.
C24_ShutdownEndsLoop ==
    /\ (Running /\ signal) ~> (pc = "exited")
    /\ [][ShutdownBreak => pc' = "exited" /\ procs' = procs
                           /\ update_task' = None /\ pending_update' = None]_vars
\* The loop has exited on the signal and the display process is alive.
C24_Witness ==
    /\ pc = "exited"
    /\ signal
    /\ Cardinality(procs) = 1

\* C25: in every state the pending slot holds a command only if the running
\* slot is occupied.
C25_SlotInvariant ==
    IsSome(pending_update) => IsSome(update_task)
\* A command is pending behind a command whose process has already exited:
\* the loop has yet to observe the exit.
C25_Witness ==
    /\ Running
    /\ IsSome(pending_update)
    /\ TaskFinished(update_task, procs)
    /\ procs = {}

\* C26: while the loop runs, after configuration and after every handled
\* event, the persisted pause flag equals the timer's paused state; only
\* Pause and Resume change it: UpdateInterval replaces the timer and keeps
\* its paused state, NextImage and SelectGallery change neither, and a
\* restored snapshot sets both.
C26_PauseFlagConsistent ==
    /\ [](Running => persistent.is_paused = update_interval.is_paused)
    /\ [][/\ pc = "run" /\ pc' = "run"
          /\ \/ update_interval'.is_paused # update_interval.is_paused
             \/ persistent'.is_paused # persistent.is_paused
          => HandlePause(TRUE) \/ HandlePause(FALSE)]_vars
    /\ [][pc = "new" /\ pc' = "run" /\ IsSome(stored) /\ stored' = stored /\ storage_file' =>
             /\ persistent'.is_paused = Unwrap(stored).is_paused
             /\ update_interval'.is_paused = Unwrap(stored).is_paused]_vars
\* UpdateInterval was handled while the daemon was paused: the new timer
\* is paused as well.
C26_Witness ==
    /\ Running
    /\ reply.req.method = "UpdateInterval"
    /\ since = "new_paused"
    /\ persistent.is_paused /\ update_interval.is_paused

\* C27: once configuration has succeeded, the current gallery is set and is
\* a key of the gallery registry in every state, after any SelectGallery
\* request and after any snapshot load, accepted or rejected.
C27_CurrentGalleryValid ==
    pc \in {"run", "loaded", "rejected", "selected"} =>
        /\ IsSome(persistent.current_gallery)
        /\ Unwrap(persistent.current_gallery) \in galleries

\* The latest instant at which the tick() of an unpaused timer is ready,
\* whether its pending wait is kept or abandoned: the deadline of the tokio
\* interval, the end of the pending sleep, or the end of the sleep that the
\* next tick() starts from already_expired.
WorstReady ==
    LET tm == update_interval
        resumed == IF IsSome(tm.already_expired)
                   THEN tm.last_interaction + Monus(tm.period, Unwrap(tm.already_expired))
                   ELSE 0
        asleep == IF tickFut.kind = "sleep" THEN tickFut.until ELSE 0
    IN  Max(tm.deadline, Max(resumed, asleep))

\* The timer is unpaused and its tick is due within the modelled time.
TickDue ==
    /\ Running
    /\ ~update_interval.is_paused
    /\ WorstReady <= MaxTime

====
